---------------------------- MODULE Spec2Model ----------------------------
(***************************************************************************)
(* A model of the interactive calculator of src/main.cc: the read loop of  *)
(* main, tokenize, the recursive-descent Parser and the tree-walking       *)
(* execute methods over the VirtualMachine (operand stack + variables).    *)
(*                                                                         *)
(* Source text is a TLA+ string; offsets are 0-based as in the C++ code.   *)
(* A double is modelled as an exact rational n/d (d > 0), with d = 0 for   *)
(* the non-finite values: 1/0 = +inf, -1/0 = -inf, 0/0 = NaN.  Rounding    *)
(* of binary floating point and the sign of zero are not modelled.         *)
(*                                                                         *)
(* The parser indexes m_toks without any bound check.  A read at an index  *)
(* >= m_toks.size() is undefined behaviour; it is modelled as a            *)
(* nondeterministic choice: the read faults (the process dies), or it      *)
(* yields some token value found in the memory behind the vector.  The     *)
(* memory is constant during one parse, so a second read of the same index *)
(* yields the same value.                                                  *)
(***************************************************************************)
EXTENDS Integers, Sequences, FiniteSets, TLC

(***************************************************************************)
(* The state of main.                                                      *)
(***************************************************************************)
VARIABLES
    pc,           \* where main is: "prompt", "read", "tokenize", "parse",
                  \* "execute", "print", "catch", "exit", "crashed"
    nlines,       \* lines read so far
    input,        \* std::string input of the current iteration
    toks,         \* the token vector of the current line
    parse,        \* the AST root of the current line
    exc,          \* what() of the exception in flight
    m_stack,      \* VirtualMachine::m_stack
    m_variables,  \* VirtualMachine::m_variables
    output,       \* the last text written to std::cout
    look,         \* history: the m_toks[m_idx + 1] lookahead of the current parse
    oobRead,      \* history: the current parse read m_toks behind its end
    m_idx,        \* history: Parser::m_idx when the current parse returned
    popEmpty,     \* history: pop was called on an empty stack
    stack0,       \* history: m_stack when the current line was read
    vars0,        \* history: m_variables when the current line was read
    assigned      \* history: name -> the value the last executed Assignment stored

(***************************************************************************)
(* Bounds of the model.                                                    *)
(***************************************************************************)
\* Number of lines read in one session.
MaxLines == 2
\* Number of token slots behind the end of m_toks that can be read before
\* the read leaves mapped memory and faults.
MaxGarbage == 3

(***************************************************************************)
(* Characters.                                                             *)
(***************************************************************************)
\* input[input.length()] is the terminating '\0' of std::string.
NUL == "NUL"

Ch(s, i) == IF i >= 0 /\ i < Len(s) THEN SubSeq(s, i + 1, i + 1) ELSE NUL

DigitChars == "0123456789"

AlphaChars == "xyquit"

InChars(c, set) == \E k \in 0..(Len(set) - 1) : Ch(set, k) = c

isdigit(c) == InChars(c, DigitChars)

isalpha(c) == InChars(c, AlphaChars)

isalnum(c) == isdigit(c) \/ isalpha(c)

DigitVal(c) == CHOOSE k \in 0..9 : Ch(DigitChars, k) = c

(***************************************************************************)
(* double, as a rational [n, d].                                           *)
(***************************************************************************)
Abs(i) == IF i < 0 THEN -i ELSE i

Sgn(i) == IF i < 0 THEN -1 ELSE IF i > 0 THEN 1 ELSE 0

RECURSIVE Gcd(_, _)
Gcd(a, b) == IF b = 0 THEN a ELSE Gcd(b, a % b)

Rat(n, d) ==
    IF d = 0 THEN [n |-> Sgn(n), d |-> 0]
    ELSE LET g == Gcd(Abs(n), Abs(d))
         IN  [n |-> Sgn(d) * (n \div g), d |-> Abs(d) \div g]

Num(i) == [n |-> i, d |-> 1]

NaN == [n |-> 0, d |-> 0]

IsNaN(a) == a.d = 0 /\ a.n = 0

IsInf(a) == a.d = 0 /\ a.n # 0

DAdd(a, b) ==
    IF IsNaN(a) \/ IsNaN(b) THEN NaN
    ELSE IF IsInf(a) THEN (IF IsInf(b) /\ b.n # a.n THEN NaN ELSE a)
    ELSE IF IsInf(b) THEN b
    ELSE Rat(a.n * b.d + b.n * a.d, a.d * b.d)

DNeg(a) == [n |-> -a.n, d |-> a.d]

DSub(a, b) == DAdd(a, DNeg(b))

DMul(a, b) ==
    IF IsNaN(a) \/ IsNaN(b) THEN NaN
    ELSE Rat(a.n * b.n, a.d * b.d)

DDiv(a, b) ==
    IF IsNaN(a) \/ IsNaN(b) THEN NaN
    ELSE IF IsInf(b) THEN (IF IsInf(a) THEN NaN ELSE Num(0))
    ELSE IF b.n = 0 THEN Rat(a.n, 0)
    ELSE IF IsInf(a) THEN Rat(a.n * Sgn(b.n), 0)
    ELSE Rat(a.n * b.d, a.d * b.n)

(***************************************************************************)
(* CompileContext::get_from_range and std::stod.                           *)
(***************************************************************************)
\* std::string::substr(pos, count): pos > size() throws std::out_of_range;
\* the characters [pos, min(pos + count, size())) otherwise.  count is
\* end - start in unsigned arithmetic, so end < start wraps to a huge count.
SubstrThrows(src, range) == range.start > Len(src)

get_from_range(src, range) ==
    LET last == IF range.end < range.start \/ range.end > Len(src)
                THEN Len(src) ELSE range.end
    IN  SubSeq(src, range.start + 1, last)

RECURSIVE DigitRunEnd(_, _)
\* First offset >= i of s that holds no digit.
DigitRunEnd(s, i) == IF isdigit(Ch(s, i)) THEN DigitRunEnd(s, i + 1) ELSE i

RECURSIVE DigitsValue(_, _, _, _)
\* Decimal value of the digits s[i .. j-1], continuing the value acc.
DigitsValue(s, i, j, acc) ==
    IF i >= j THEN acc ELSE DigitsValue(s, i + 1, j, acc * 10 + DigitVal(Ch(s, i)))

RECURSIVE Pow10(_)
Pow10(k) == IF k = 0 THEN 1 ELSE 10 * Pow10(k - 1)

\* std::stod on a lexeme made of the modelled characters: the longest prefix
\* digits [ '.' digits ] holding at least one digit is converted; with no such
\* prefix std::invalid_argument is thrown (ok = FALSE).
stod(s) ==
    LET i  == DigitRunEnd(s, 0)
        j  == IF Ch(s, i) = "." THEN DigitRunEnd(s, i + 1) ELSE i
        nf == IF j > i THEN j - i - 1 ELSE 0
    IN  IF i + nf = 0
        THEN [ok |-> FALSE, v |-> NaN]
        ELSE [ok |-> TRUE,
              v  |-> Rat(DigitsValue(s, i + 1, j, DigitsValue(s, 0, i, 0)), Pow10(nf))]

(***************************************************************************)
(* tokenize.                                                               *)
(***************************************************************************)
Tok(type, start, end) == [type |-> type, range |-> [start |-> start, end |-> end]]

PunctType(c) ==
    CASE c = "+" -> "Plus"
      [] c = "-" -> "Minus"
      [] c = "*" -> "Asterisk"
      [] c = "/" -> "Solidus"
      [] c = "(" -> "LeftParanthesis"
      [] c = ")" -> "RightParanthesis"
      [] c = "=" -> "Equals"
      [] OTHER   -> "none"

RECURSIVE SkipSpaces(_, _)
\* while (input[idx + 1] == ' ') idx += 1;
SkipSpaces(str, idx) ==
    IF Ch(str, idx + 1) = " " THEN SkipSpaces(str, idx + 1) ELSE idx

RECURSIVE NumberEnd(_, _)
\* while (isdigit(input[idx]) or input[idx] == '.') idx += 1;
NumberEnd(str, idx) ==
    IF isdigit(Ch(str, idx)) \/ Ch(str, idx) = "."
    THEN NumberEnd(str, idx + 1) ELSE idx

RECURSIVE IdentEnd(_, _)
\* while (isalnum(input[idx])) idx += 1;
IdentEnd(str, idx) ==
    IF isalnum(Ch(str, idx)) THEN IdentEnd(str, idx + 1) ELSE idx

RECURSIVE TokenizeFrom(_, _, _)
\* The for loop of tokenize, from offset idx with tokens already pushed to toks.
TokenizeFrom(str, idx, tokens) ==
    IF idx >= Len(str) THEN [ok |-> TRUE, toks |-> tokens]
    ELSE LET c == Ch(str, idx) IN
         IF c = " " THEN TokenizeFrom(str, SkipSpaces(str, idx) + 1, tokens)
         ELSE IF PunctType(c) # "none"
         THEN TokenizeFrom(str, idx + 1, Append(tokens, Tok(PunctType(c), idx, idx + 1)))
         ELSE IF isdigit(c) \/ c = "."
         THEN LET e == NumberEnd(str, idx)
              IN  TokenizeFrom(str, (e - 1) + 1, Append(tokens, Tok("Number", idx, e)))
         ELSE IF isalpha(c)
         THEN LET e == IdentEnd(str, idx)
              IN  TokenizeFrom(str, (e - 1) + 1, Append(tokens, Tok("Identifier", idx, e)))
         ELSE [ok |-> FALSE, toks |-> <<>>]

tokenize(str) == TokenizeFrom(str, 0, <<>>)

(***************************************************************************)
(* Memory behind the token vector.                                         *)
(***************************************************************************)
TokenTypes ==
    {"Number", "Plus", "Minus", "Asterisk", "Solidus", "LeftParanthesis",
     "RightParanthesis", "Equals", "Identifier"}

\* A slot behind the vector's end that no read has looked at yet.
Unread == [type |-> "unread", range |-> [start |-> 0, end |-> 0]]

\* The m_range values a slot behind the vector's end may hold: zeroes, what an
\* earlier token left there (the last token of the line stands for it), or
\* offsets behind the end of the source text.
GarbageRanges(C) ==
    {[start |-> 0, end |-> 0], [start |-> Len(C.src) + 1, end |-> Len(C.src) + 1]}
    \cup {C.toks[i].range : i \in {Len(C.toks)} \cap DOMAIN C.toks}

\* The Token values a slot behind the vector's end may hold.  m_type is any
\* enumerator, or a bit pattern that is no enumerator ("Invalid"); m_range
\* only matters for the two token types whose lexeme is read.
GarbageTokens(C) ==
    {Tok(t, 0, 0) : t \in (TokenTypes \ {"Number", "Identifier"}) \cup {"Invalid"}}
    \cup {[type |-> t, range |-> r] : t \in {"Number", "Identifier"}, r \in GarbageRanges(C)}

\* mem with slot k (1-based, behind the end) set to t; slots skipped stay Unread.
SetSlot(mem, k, t) ==
    [i \in 1..(IF k > Len(mem) THEN k ELSE Len(mem)) |->
        IF i = k THEN t ELSE IF i <= Len(mem) THEN mem[i] ELSE Unread]

\* m_toks[idx].  C = [src, toks]; mem is what earlier reads of this parse found
\* behind the end.  The set of outcomes [fault, tok, mem]: one inside the
\* vector; behind it, a fault or any garbage token (the same token again when
\* the slot was read before).
ReadTok(C, mem, idx) ==
    LET n == Len(C.toks)
        k == idx - n + 1
    IN  IF idx < n
        THEN {[fault |-> FALSE, tok |-> C.toks[idx + 1], mem |-> mem]}
        ELSE IF k <= Len(mem) /\ mem[k] # Unread
        THEN {[fault |-> FALSE, tok |-> mem[k], mem |-> mem]}
        ELSE {[fault |-> TRUE, tok |-> Unread, mem |-> mem]}
             \cup (IF k > MaxGarbage THEN {}
                   ELSE {[fault |-> FALSE, tok |-> t, mem |-> SetSlot(mem, k, t)] :
                            t \in GarbageTokens(C)})

(***************************************************************************)
(* AST nodes.                                                              *)
(***************************************************************************)
NumberNode(number) == [k |-> "num", v |-> number]

IdentNode(ident) == [k |-> "id", name |-> ident]

BinaryNode(action, left, right) == [k |-> "bin", op |-> action, l |-> left, r |-> right]

AssignmentNode(name, rhs) == [k |-> "asg", name |-> name, rhs |-> rhs]

NoNode == [k |-> "none"]

(***************************************************************************)
(* Parser.  Every parse function yields the set of its possible outcomes   *)
(* [st, node, idx, mem, msg]: st = "ok" with the node and the new m_idx,   *)
(* st = "throw" with the std::runtime_error message, or st = "crash" when  *)
(* the process dies (a faulting read, std::terminate, or control flowing   *)
(* off the end of parse_fact).                                             *)
(***************************************************************************)
Ok(node, idx, mem) == [st |-> "ok", node |-> node, idx |-> idx, mem |-> mem, msg |-> ""]

Throw(msg, idx, mem) == [st |-> "throw", node |-> NoNode, idx |-> idx, mem |-> mem, msg |-> msg]

Crash(idx, mem) == [st |-> "crash", node |-> NoNode, idx |-> idx, mem |-> mem, msg |-> ""]

RECURSIVE parse_fact(_, _, _)
RECURSIVE parse_term(_, _, _)
RECURSIVE parse_expr(_, _, _)
RECURSIVE term_loop(_, _, _, _)
RECURSIVE expr_loop(_, _, _, _)

\* The switch of parse_fact on the token tok read at m_idx; idx is m_idx + 1.
fact_switch(C, tok, idx, mem) ==
    CASE tok.type = "Number" ->
            IF SubstrThrows(C.src, tok.range) THEN {Crash(idx, mem)}
            ELSE LET d == stod(get_from_range(C.src, tok.range))
                 IN  IF d.ok THEN {Ok(NumberNode(d.v), idx, mem)}
                     ELSE {Throw("invalid number conversion error", idx, mem)}
      [] tok.type = "Identifier" ->
            IF SubstrThrows(C.src, tok.range) THEN {Crash(idx, mem)}
            ELSE {Ok(IdentNode(get_from_range(C.src, tok.range)), idx, mem)}
      [] tok.type \in {"Plus", "Minus", "Asterisk", "Solidus", "RightParanthesis", "Equals"} ->
            {Throw("Invalid token in parse stream", idx, mem)}
      [] tok.type = "LeftParanthesis" ->
            UNION {IF e.st # "ok" THEN {e}
                   ELSE {IF r.fault THEN Crash(e.idx, r.mem)
                         ELSE IF r.tok.type # "RightParanthesis"
                         THEN Throw("Expected a left-paranthesis", e.idx, r.mem)
                         ELSE Ok(e.node, e.idx, r.mem) : r \in ReadTok(C, e.mem, e.idx)}
                   : e \in parse_expr(C, idx, mem)}
      [] OTHER -> {Crash(idx, mem)}

parse_fact(C, idx, mem) ==
    UNION {IF r.fault THEN {Crash(idx, r.mem)} ELSE fact_switch(C, r.tok, idx + 1, r.mem)
           : r \in ReadTok(C, mem, idx)}

\* One iteration of the for (;;) of parse_term with left parsed so far.
term_loop(C, left, idx, mem) ==
    UNION {IF r.fault THEN {Crash(idx, r.mem)}
           ELSE IF r.tok.type \notin {"Asterisk", "Solidus"} THEN {Ok(left, idx, r.mem)}
           ELSE UNION {IF t.st # "ok" THEN {t}
                       ELSE term_loop(C,
                                BinaryNode(IF r.tok.type = "Asterisk" THEN "Multiply" ELSE "Divide",
                                           left, t.node),
                                t.idx, t.mem)
                       : t \in parse_term(C, idx + 1, r.mem)}
           : r \in ReadTok(C, mem, idx)}

parse_term(C, idx, mem) ==
    UNION {IF f.st # "ok" THEN {f} ELSE term_loop(C, f.node, f.idx, f.mem)
           : f \in parse_fact(C, idx, mem)}

\* One iteration of the for (;;) of parse_expr with left parsed so far.
expr_loop(C, left, idx, mem) ==
    UNION {IF r.fault THEN {Crash(idx, r.mem)}
           ELSE IF r.tok.type \notin {"Plus", "Minus"} THEN {Ok(left, idx, r.mem)}
           ELSE UNION {IF f.st # "ok" THEN {f}
                       ELSE expr_loop(C,
                                BinaryNode(IF r.tok.type = "Plus" THEN "Add" ELSE "Subtract",
                                           left, f.node),
                                f.idx, f.mem)
                       : f \in parse_fact(C, idx + 1, r.mem)}
           : r \in ReadTok(C, mem, idx)}

parse_expr(C, idx, mem) ==
    UNION {IF t.st # "ok" THEN {t} ELSE expr_loop(C, t.node, t.idx, t.mem)
           : t \in parse_term(C, idx, mem)}

parse_assignment(C, idx, mem) ==
    UNION {IF r.fault THEN {Crash(idx, r.mem)}
           ELSE IF r.tok.type # "Identifier"
           THEN {Throw("Expected an identifier on the left-side of an assignment.", idx, r.mem)}
           ELSE IF SubstrThrows(C.src, r.tok.range) THEN {Crash(idx, r.mem)}
           ELSE {IF e.st # "ok" THEN e
                 ELSE Ok(AssignmentNode(get_from_range(C.src, r.tok.range), e.node), e.idx, e.mem)
                 : e \in parse_expr(C, idx + 2, r.mem)}
           : r \in ReadTok(C, mem, idx)}

\* The largest value of size_t; it stands for 2^64 - 1 in the only place it is
\* used, the wrapped m_toks.size() - 1 of an empty vector.
SizeMax == 2147483647

\* m_toks.size() - 1 in size_t arithmetic.
SizeMinusOne(n) == IF n = 0 THEN SizeMax ELSE n - 1

\* Outcomes [look, res]: look tells whether m_toks[m_idx + 1] was read and
\* whether that read was behind the end; res is the outcome of the parse.
parse_expr_or_statement(C) ==
    LET idx == 0 IN
    IF idx < SizeMinusOne(Len(C.toks))
    THEN UNION {{[look |-> IF idx + 1 >= Len(C.toks) THEN "behind" ELSE "inside", res |-> p]
                 : p \in IF r.fault THEN {Crash(idx, r.mem)}
                         ELSE IF r.tok.type = "Equals" THEN parse_assignment(C, idx, r.mem)
                         ELSE parse_expr(C, idx, r.mem)}
                : r \in ReadTok(C, <<>>, idx + 1)}
    ELSE {[look |-> "none", res |-> p] : p \in parse_expr(C, idx, <<>>)}

\* Parser::parse.
Parse(src, tokens) == parse_expr_or_statement([src |-> src, toks |-> tokens])

(***************************************************************************)
(* VirtualMachine and the execute methods.  vm = [stack, vars, under]:     *)
(* under records that pop was called on an empty stack (m_stack.back() of  *)
(* an empty vector, undefined behaviour).                                  *)
(***************************************************************************)
push(vm, d) == [vm EXCEPT !.stack = Append(@, d)]

\* The value popped, and the machine after the pop.
pop(vm) ==
    IF vm.stack = <<>>
    THEN [val |-> NaN, vm |-> [vm EXCEPT !.under = TRUE]]
    ELSE [val |-> vm.stack[Len(vm.stack)],
          vm  |-> [vm EXCEPT !.stack = SubSeq(@, 1, Len(@) - 1)]]

stack_size(vm) == Len(vm.stack)

\* m_variables[str] = d: std::unordered_map::operator[] inserts a missing key.
MapStore(vars, str, d) ==
    [name \in DOMAIN vars \cup {str} |-> IF name = str THEN d ELSE vars[name]]

set(vm, str, d) == [vm EXCEPT !.vars = MapStore(@, str, d)]

\* return m_variables[str]: operator[] value-initialises a missing key to 0.0
\* and inserts it.
get(vm, str) ==
    IF str \in DOMAIN vm.vars
    THEN [val |-> vm.vars[str], vm |-> vm]
    ELSE [val |-> Num(0), vm |-> [vm EXCEPT !.vars = MapStore(@, str, Num(0))]]

\* The switch of BinaryNode::execute.
Apply(action, left_val, right_val) ==
    CASE action = "Add"      -> DAdd(left_val, right_val)
      [] action = "Subtract" -> DSub(left_val, right_val)
      [] action = "Multiply" -> DMul(left_val, right_val)
      [] action = "Divide"   -> DDiv(left_val, right_val)

\* BinaryNode::execute with the second pop forgotten: left_val is a copy of
\* right_val and the left operand stays on the stack.
BinaryFinishOnePop(action, vm) ==
    LET right == pop(vm)
    IN  push(right.vm, Apply(action, right.val, right.val))

\* BinaryNode::execute after both children have executed.
BinaryFinish(action, vm) ==
    LET right == pop(vm)
        left  == pop(right.vm)
    IN  push(left.vm, Apply(action, left.val, right.val))

\* AssignmentNode::execute after m_rhs has executed.
AssignmentFinish(name, vm) ==
    LET p == pop(vm) IN set(p.vm, name, p.val)

RECURSIVE execute(_, _)
\* Node::execute, by node class.
execute(node, vm) ==
    CASE node.k = "num" -> push(vm, node.v)
      [] node.k = "id"  -> LET g == get(vm, node.name) IN push(g.vm, g.val)
      [] node.k = "bin" -> BinaryFinish(node.op, execute(node.r, execute(node.l, vm)))
      [] node.k = "asg" -> AssignmentFinish(node.name, execute(node.rhs, vm))

(***************************************************************************)
(* The lines typed in a session.                                           *)
(***************************************************************************)
ParenLine(a, b, c) == "(" \o a \o " + " \o b \o ") * " \o c

ParenLines == {ParenLine(a, b, c) : a \in {"3", "4"}, b \in {"3", "4"}, c \in {"2", "3"}}

Operands == {<<"8", "4", "2">>, <<"3", "4", "2">>, <<"x", "3", "y">>}

Operators == {"+", "-", "*", "/"}

\* a o1 b o2 c
ChainLine(t, o1, o2) == t[1] \o " " \o o1 \o " " \o t[2] \o " " \o o2 \o " " \o t[3]

ChainLines == {ChainLine(t, o, o) : t \in Operands, o \in Operators}

GapLines == {ChainLine(t, "+", "*") : t \in Operands}

VariableLines ==
    {"x = 5", "x", "y = 1.5", "y", "x = y", "(x)", "x = (5)", "x + y", "y = x = 3",
     "x = 3 + 4 * 2", "x1 = 2", "2 + 3", "1+2", "1 +  2", "2 / 0", "1.2.3"}

TruncatedLines == {"1 +", "2 *", "x =", "1 + (", "(", "(1 +", "(1", "((1)", "((1))", "(1)"}

EdgeLines == {"", " ", "  ", "1", "=", "= 1", "1 = 2", ")", "+", ".", "1 + ."}

LexErrorLines == {"#", "1 # 2", "x = #", "x = 1 #"}

Lines ==
    ParenLines \cup ChainLines \cup GapLines \cup VariableLines \cup TruncatedLines
    \cup EdgeLines \cup LexErrorLines

(***************************************************************************)
(* Parser::parse as the driver sees it.                                    *)
(***************************************************************************)
\* A parse read behind the end of m_toks iff it found garbage there or died:
\* every way to die starts with such a read.
ReadBehind(p) == p.res.mem # <<>> \/ p.res.st = "crash"

\* What the driver and the history variables keep of one outcome of a parse
\* of line.
Seen(line, p) ==
    [line |-> line,
     st   |-> p.res.st,
     node |-> p.res.node,
     msg  |-> p.res.msg,
     idx  |-> IF p.res.st = "ok" THEN p.res.idx ELSE 0,
     look |-> p.look,
     oob  |-> ReadBehind(p)]

\* Parser::parse on the tokens of every line that tokenizes, tabulated: the
\* outcomes of a parse depend on the line alone.
Outcomes ==
    UNION {{Seen(line, p) : p \in Parse(line, tokenize(line).toks)} :
             line \in {l \in Lines : tokenize(l).ok}}

(***************************************************************************)
(* main.                                                                   *)
(***************************************************************************)
vars ==
    <<pc, nlines, input, toks, parse, exc, m_stack, m_variables, output, look,
      oobRead, m_idx, popEmpty, stack0, vars0, assigned>>

EmptyMap == [name \in {} |-> Num(0)]

Banner == [kind |-> "text", text |-> "Type \"quit\" to leave.", val |-> NaN]

PromptText == [kind |-> "text", text |-> ">> ", val |-> NaN]

\* std::to_string(d) followed by std::endl; val is the double converted.
ResultText(d) == [kind |-> "result", text |-> "", val |-> d]

\* e.what() followed by std::endl.
ErrorText(msg) == [kind |-> "error", text |-> msg, val |-> NaN]

Init ==
    /\ pc = "prompt"
    /\ nlines = 0
    /\ input = ""
    /\ toks = <<>>
    /\ parse = NoNode
    /\ exc = ""
    /\ m_stack = <<>>
    /\ m_variables = EmptyMap
    /\ output = Banner
    /\ look = "none"
    /\ oobRead = FALSE
    /\ m_idx = 0
    /\ popEmpty = FALSE
    /\ stack0 = <<>>
    /\ vars0 = EmptyMap
    /\ assigned = EmptyMap

\* std::cout << ">> "; the locals of the previous iteration are gone.
Prompt ==
    /\ pc = "prompt"
    /\ pc' = "read"
    /\ output' = PromptText
    /\ input' = ""
    /\ toks' = <<>>
    /\ parse' = NoNode
    /\ look' = "none"
    /\ oobRead' = FALSE
    /\ m_idx' = 0
    /\ stack0' = m_stack
    /\ vars0' = m_variables
    /\ UNCHANGED <<nlines, exc, m_stack, m_variables, popEmpty, assigned>>

\* std::getline of a line other than "quit".
ReadLine ==
    /\ pc = "read"
    /\ nlines < MaxLines
    /\ \E line \in Lines :
          /\ line # "quit"
          /\ input' = line
    /\ pc' = "tokenize"
    /\ nlines' = nlines + 1
    /\ stack0' = m_stack
    /\ vars0' = m_variables
    /\ UNCHANGED <<toks, parse, exc, m_stack, m_variables, output, look, oobRead,
                   m_idx, popEmpty, assigned>>

\* std::getline of "quit": break.
Quit ==
    /\ pc = "read"
    /\ input' = "quit"
    /\ pc' = "exit"
    /\ UNCHANGED <<nlines, toks, parse, exc, m_stack, m_variables, output, look,
                   oobRead, m_idx, popEmpty, stack0, vars0, assigned>>

\* auto const toks = tokenize(input), returning.
TokenizeOk ==
    /\ pc = "tokenize"
    /\ tokenize(input).ok
    /\ toks' = tokenize(input).toks
    /\ pc' = "parse"
    /\ UNCHANGED <<nlines, input, parse, exc, m_stack, m_variables, output, look,
                   oobRead, m_idx, popEmpty, stack0, vars0, assigned>>

\* auto const toks = tokenize(input), throwing.
TokenizeThrow ==
    /\ pc = "tokenize"
    /\ ~tokenize(input).ok
    /\ exc' = "unknown symbol in lexer"
    /\ pc' = "catch"
    /\ UNCHANGED <<nlines, input, toks, parse, m_stack, m_variables, output, look,
                   oobRead, m_idx, popEmpty, stack0, vars0, assigned>>

\* auto parse = Parser::parse(ctx, toks), returning a tree.
ParseOk ==
    /\ pc = "parse"
    /\ \E p \in Outcomes :
          /\ p.line = input
          /\ p.st = "ok"
          /\ parse' = p.node
          /\ m_idx' = p.idx
          /\ look' = p.look
          /\ oobRead' = p.oob
    /\ pc' = "execute"
    /\ UNCHANGED <<nlines, input, toks, exc, m_stack, m_variables, output, popEmpty,
                   stack0, vars0, assigned>>

\* auto parse = Parser::parse(ctx, toks), throwing std::runtime_error.
ParseThrow ==
    /\ pc = "parse"
    /\ \E p \in Outcomes :
          /\ p.line = input
          /\ p.st = "throw"
          /\ exc' = p.msg
          /\ look' = p.look
          /\ oobRead' = p.oob
    /\ pc' = "catch"
    /\ UNCHANGED <<nlines, input, toks, parse, m_stack, m_variables, output, m_idx,
                   popEmpty, stack0, vars0, assigned>>

\* Parser::parse killing the process.
ParseCrash ==
    /\ pc = "parse"
    /\ \E p \in Outcomes :
          /\ p.line = input
          /\ p.st = "crash"
          /\ look' = p.look
          /\ oobRead' = p.oob
    /\ pc' = "crashed"
    /\ UNCHANGED <<nlines, input, toks, parse, exc, m_stack, m_variables, output,
                   m_idx, popEmpty, stack0, vars0, assigned>>

\* parse->execute(vm).
Execute ==
    /\ pc = "execute"
    /\ LET vm == execute(parse, [stack |-> m_stack, vars |-> m_variables, under |-> FALSE])
       IN  /\ m_stack' = vm.stack
           /\ m_variables' = vm.vars
           /\ popEmpty' = (popEmpty \/ vm.under)
           /\ pc' = IF vm.under THEN "crashed" ELSE "print"
           /\ assigned' = IF parse.k = "asg" /\ ~vm.under
                          THEN MapStore(assigned, parse.name, vm.vars[parse.name])
                          ELSE assigned
    /\ UNCHANGED <<nlines, input, toks, parse, exc, output, look, oobRead, m_idx,
                   stack0, vars0>>

\* if (vm.stack_size() > 0) std::cout << std::to_string(vm.pop()) << std::endl;
PrintResult ==
    /\ pc = "print"
    /\ LET vm == [stack |-> m_stack, vars |-> m_variables, under |-> FALSE]
       IN  IF stack_size(vm) > 0
           THEN /\ output' = ResultText(pop(vm).val)
                /\ m_stack' = pop(vm).vm.stack
           ELSE UNCHANGED <<output, m_stack>>
    /\ pc' = "prompt"
    /\ UNCHANGED <<nlines, input, toks, parse, exc, m_variables, look, oobRead, m_idx,
                   popEmpty, stack0, vars0, assigned>>

\* A handler that also starts over with a fresh VirtualMachine.
CatchResets ==
    /\ pc = "catch"
    /\ output' = ErrorText(exc)
    /\ exc' = ""
    /\ pc' = "prompt"
    /\ m_stack' = <<>>
    /\ m_variables' = EmptyMap
    /\ UNCHANGED <<nlines, input, toks, parse, look, oobRead, m_idx, popEmpty,
                   stack0, vars0, assigned>>

\* catch (std::exception const& e) { std::cout << e.what() << std::endl; }
Catch ==
    /\ pc = "catch"
    /\ output' = ErrorText(exc)
    /\ exc' = ""
    /\ pc' = "prompt"
    /\ UNCHANGED <<nlines, input, toks, parse, m_stack, m_variables, look, oobRead,
                   m_idx, popEmpty, stack0, vars0, assigned>>

Next ==
    \/ Prompt
    \/ ReadLine
    \/ Quit
    \/ TokenizeOk
    \/ TokenizeThrow
    \/ ParseOk
    \/ ParseThrow
    \/ ParseCrash
    \/ Execute
    \/ PrintResult
    \/ Catch

Spec == Init /\ [][Next]_vars

(***************************************************************************)
(* Properties.                                                             *)
(***************************************************************************)
\* The node a single operand of a line parses to.
OperandNode(s) == IF stod(s).ok THEN NumberNode(stod(s).v) ELSE IdentNode(s)

LeftParens == {i \in DOMAIN toks : toks[i].type = "LeftParanthesis"}

RightParens == {i \in DOMAIN toks : toks[i].type = "RightParanthesis"}

\* C1: for every line ( a + b ) * c the pipeline tokenize -> parse -> execute
\* fails nowhere and leaves (a + b) * c on the stack as the line's result.
C1_ParenthesisedFactor ==
    \A a \in {"3", "4"}, b \in {"3", "4"}, c \in {"2", "3"} :
        input = ParenLine(a, b, c) =>
            /\ pc \notin {"catch", "crashed"}
            /\ pc = "print" =>
                  m_stack = <<DMul(DAdd(stod(a).v, stod(b).v), stod(c).v)>>

\* C2: once an Assignment to a name has executed, the line consisting of that
\* name evaluates to the value stored, whatever lines came in between; and an
\* Assignment line leaves the stack empty, so it prints no result.
C2_VariablePersists ==
    /\ \A name \in DOMAIN assigned :
          (name # "" /\ input = name /\ pc \in {"print", "catch", "crashed"}) =>
              (pc = "print" /\ m_stack = <<assigned[name]>>)
    /\ (pc = "print" /\ parse.k = "asg") => m_stack = <<>>

\* C3: while an exception of tokenize or Parser::parse is in flight, and after
\* the driver has printed its message, the variable table and the operand
\* stack are what they were when the line was read; the exception always
\* reaches the driver's handler, which prints the message and goes back to
\* the prompt.
C3_FailingLineIsolated ==
    /\ exc # "" => pc = "catch"
    /\ pc = "catch" => (exc # "" /\ m_variables = vars0 /\ m_stack = stack0)
    /\ (pc = "prompt" /\ output.kind = "error") =>
          (m_variables = vars0 /\ m_stack = stack0 /\ output.text # "")

\* C3 witness: a line failed in the parser on a session whose table holds a
\* variable, and the driver is back at the prompt.
C3_Witness ==
    /\ pc = "prompt"
    /\ nlines = 2
    /\ output = ErrorText("Invalid token in parse stream")
    /\ "x" \in DOMAIN m_variables
    /\ m_variables["x"] = Num(5)

\* C4: a line a + b * c, whose parse leaves * c unconsumed, fails with a parse
\* error: it is never executed and no result is printed for it.
C4_TrailingTokensFail ==
    input \in GapLines => pc \notin {"execute", "print"}

\* C5: on a line that ends right after a binary operator, after an Equals or
\* inside an open parenthesis, the parser never reads m_toks behind its end,
\* and the line ends in the driver's handler: nothing is executed and the
\* process does not die.
C5_EndOfInputIsParseError ==
    input \in {"1 +", "2 *", "x =", "1 + (", "(", "(1 +", "(1"} =>
        /\ ~oobRead
        /\ pc \notin {"execute", "print", "crashed"}

\* C6: executing a tree whose root is no AssignmentNode (here: one parsed
\* without a read behind the end of m_toks) leaves the variable table, its
\* set of keys included, as it was when the line was read.
C6_OnlyAssignmentMutates ==
    (pc = "print" /\ parse.k # "asg" /\ ~oobRead) =>
        (m_variables = vars0 /\ DOMAIN m_variables = DOMAIN vars0)

\* C7: wherever main is, except between execute and the driver's pop, the
\* operand stack is empty; after execute it holds exactly one value when the
\* root is an expression and none when the root is an Assignment; and pop is
\* never called on an empty stack.
C7_StackDiscipline ==
    /\ ~popEmpty
    /\ pc # "print" => m_stack = <<>>
    /\ pc = "print" => Len(m_stack) = (IF parse.k = "asg" THEN 0 ELSE 1)

\* C7 witness: after x = 5, the line x - 3 - y, parsed to the end of its tokens
\* into a binary operation over a binary operation and a variable reference,
\* has executed and its one result, 2, is on the stack.
C7_Witness ==
    /\ pc = "print"
    /\ nlines = 2
    /\ input = "x - 3 - y"
    /\ m_idx = Len(toks)
    /\ parse.k = "bin"
    /\ parse.l.k = "bin"
    /\ parse.r.k = "id"
    /\ "x" \in DOMAIN assigned
    /\ assigned["x"] = Num(5)
    /\ m_stack = <<Num(2)>>

\* C8: a line a o b o c with twice the same operator, parsed to the end of its
\* tokens and no further, yields the left-leaning tree o(o(a, b), c).
C8_LeftAssociative ==
    \A t \in Operands, o \in Operators :
        (pc = "execute" /\ input = ChainLine(t, o, o) /\ m_idx = Len(toks)) =>
            LET action == CASE o = "+" -> "Add" [] o = "-" -> "Subtract"
                            [] o = "*" -> "Multiply" [] o = "/" -> "Divide"
            IN  parse = BinaryNode(action,
                            BinaryNode(action, OperandNode(t[1]), OperandNode(t[2])),
                            OperandNode(t[3]))

\* C9: a line with more LeftParanthesis than RightParanthesis tokens, parsed
\* without a read behind the end of m_toks, fails: it is never executed and
\* yields no result.
C9_EveryParenClosed ==
    (Cardinality(LeftParens) > Cardinality(RightParens) /\ ~oobRead) =>
        pc \notin {"execute", "print"}

\* C10: the lookahead m_toks[m_idx + 1] of parse_expr_or_statement is never a
\* read behind the end of m_toks; on a token sequence of length 0 or 1 it is not
\* made at all; and an assignment is parsed only when the second token exists
\* and is Equals.
C10_LookaheadInBounds ==
    pc \in {"execute", "print", "catch", "crashed"} =>
        /\ look # "behind"
        /\ Len(toks) <= 1 => look = "none"
        /\ (pc = "execute" /\ parse.k = "asg") =>
              (Len(toks) >= 2 /\ toks[2].type = "Equals")

=============================================================================
